---- MODULE Spec2Model ----
(***************************************************************************)
(* Model of streamlit-chatbot/app.py: the chat turn handler (search,       *)
(* payload construction, streaming, history) and the mixed Markdown/LaTeX  *)
(* renderer render_markdown_with_latex.                                    *)
(*                                                                         *)
(* Text is a sequence of tokens.  In the chat part a token is an opaque    *)
(* piece of text (a prompt, a delta, a literal of an f-string); in the     *)
(* renderer part a token is one character, because the regular             *)
(* expressions work on characters.                                         *)
(***************************************************************************)
EXTENDS Integers, Sequences, FiniteSets, TLC

VARIABLES
    \* ---- session state and the locals of the chat input handler ----
    messages,            \* st.session_state.messages
    search_enabled,      \* st.session_state.search_enabled
    pc,                  \* position of the script run
    prompt,              \* the submitted text (line 275)
    search_sources,      \* local search_sources
    search_outcome,      \* what the search collaborator did in this turn
    messages_for_api,    \* local messages_for_api (the outbound payload)
    shown_user,          \* text handed to the renderer for the user bubble
    full_response,       \* local full_response
    message_placeholder, \* what the assistant placeholder currently shows
    raised,              \* <<>> or <<str(e)>> of the exception caught
    nchunks,             \* chunks consumed from the stream so far
    was_reset,           \* Clear Chat has been clicked in this session
    \* ---- one call of render_markdown_with_latex ----
    content,             \* the argument
    rpc,                 \* position inside the renderer
    normalized,          \* content after line 128
    out122,              \* per transformed segment: `out` after line 122
    parts,               \* local parts (line 132)
    ip,                  \* loop index i (0-based)
    inline_parts,        \* local inline_parts (line 138)
    jp,                  \* loop index j (0-based)
    shown,               \* the st.markdown / st.latex calls that displayed
    failed               \* positions <<i, j>> of the st.latex calls that raised

chatVars == <<messages, search_enabled, pc, prompt, search_sources,
              search_outcome, messages_for_api, shown_user, full_response,
              message_placeholder, raised, nchunks, was_reset>>
renderVars == <<content, rpc, normalized, out122, parts, ip, inline_parts,
                jp, shown, failed>>
vars == <<chatVars, renderVars>>

----------------------------------------------------------------------------
(* Bounds of the model *)

MaxTurns == 2
MaxChunks == 2
MaxResults == 2

----------------------------------------------------------------------------
(* Generic helpers *)

Last(s) == s[Len(s)]

Min(a, b) == IF a <= b THEN a ELSE b

RECURSIVE Join(_)
\* "".join(list)
Join(ss) == IF ss = <<>> THEN <<>> ELSE Head(ss) \o Join(Tail(ss))

RECURSIVE JoinSep(_, _)
\* sep.join(list)
JoinSep(ss, sep) ==
    IF ss = <<>> THEN <<>>
    ELSE IF Len(ss) = 1 THEN ss[1]
    ELSE ss[1] \o sep \o JoinSep(Tail(ss), sep)

\* `p in s` for Python strings
IsSubstr(p, s) ==
    \E i \in 1..(Len(s) - Len(p) + 1) : SubSeq(s, i, i + Len(p) - 1) = p

----------------------------------------------------------------------------
(* The chat input handler *)

Prompts == { <<"hello">>, <<"what is pi?">> }
Deltas == { <<"tok">> }
ErrTexts == { <<"connection reset">> }

SummaryLimit == 300
HTTP_OK == 200

\* The i-th entry of the "results" array of the search API's JSON body.
RawResult(i) ==
    [title |-> <<"T", ToString(i)>>, url |-> <<"U", ToString(i)>>,
     text |-> <<"S", ToString(i)>>, published_date |-> <<"D", ToString(i)>>]

\* What the search collaborator can do: no API key in the environment, the
\* request raising, or a response with a status code and a body.
SearchEnvs ==
    { [has_key |-> FALSE, raises |-> FALSE, status_code |-> 0, n |-> 0] }
    \cup { [has_key |-> TRUE, raises |-> TRUE, status_code |-> 0, n |-> 0] }
    \cup { [has_key |-> TRUE, raises |-> FALSE, status_code |-> c, n |-> k] :
             c \in {HTTP_OK, 500}, k \in 0..MaxResults }

OutcomeOf(env) ==
    IF ~env.has_key THEN "nokey"
    ELSE IF env.raises THEN "raise"
    ELSE IF env.status_code = HTTP_OK THEN "ok" ELSE "status"

\* lines 84-90: one entry of `results`
ResultEntry(r) ==
    [title |-> r.title, url |-> r.url,
     summary |-> SubSeq(r.text, 1, Min(Len(r.text), SummaryLimit)),
     published_date |-> r.published_date]

perform_search_ignoring_status(env) ==
    IF ~env.has_key THEN <<>>
    ELSE IF env.raises THEN <<>>
    ELSE [i \in 1..env.n |-> ResultEntry(RawResult(i))]

\* lines 48-97
perform_search(env) ==
    IF ~env.has_key THEN <<>>
    ELSE IF env.raises THEN <<>>
    ELSE IF env.status_code = HTTP_OK
         THEN [i \in 1..env.n |-> ResultEntry(RawResult(i))]
         ELSE <<>>

Header == "\n\nSearch Results:\n"

\* lines 296: one numbered entry of the context block
FormatSource(idx, source) ==
    <<ToString(idx), ". ">> \o source.title \o <<" (">> \o source.url
        \o <<")\n   ">> \o source.summary

\* lines 295-298
search_context(sources) ==
    <<Header>> \o JoinSep([k \in 1..Len(sources) |-> FormatSource(k, sources[k])],
                          <<"\n\n">>)

\* lines 293-299
api_user_content(p, enabled, sources) ==
    IF enabled /\ sources # <<>> THEN p \o search_context(sources) ELSE p

user_message_with_context(p, enabled, sources) ==
    [role |-> "user", content |-> api_user_content(p, enabled, sources)]

\* line 289
user_message(p, enabled, sources) == [role |-> "user", content |-> p]

history_for_api_raw(msgs) == msgs

\* lines 283-286
history_for_api(msgs) ==
    [k \in 1..Len(msgs) |-> [role |-> msgs[k].role, content |-> msgs[k].content]]

\* line 346; the cross mark that opens the literal is left out
error_message(e) == <<"Error: ">> \o e

\* lines 351-353
assistant_message(text, sources) ==
    IF sources # <<>>
    THEN [role |-> "assistant", content |-> text, sources |-> sources]
    ELSE [role |-> "assistant", content |-> text]

NoPlaceholder == [kind |-> "empty", text |-> <<>>]

\* A new script run starts: the locals of the previous run are gone.
FreshLocals ==
    /\ prompt' = <<>>
    /\ search_sources' = <<>>
    /\ search_outcome' = "none"
    /\ messages_for_api' = <<>>
    /\ shown_user' = <<>>
    /\ full_response' = <<>>
    /\ message_placeholder' = NoPlaceholder
    /\ raised' = <<>>
    /\ nchunks' = 0

BetweenRuns == pc \in {"idle", "done"}

ClearChatPopLast ==
    /\ BetweenRuns
    /\ messages' = IF messages = <<>> THEN <<>>
                   ELSE SubSeq(messages, 1, Len(messages) - 1)
    /\ was_reset' = TRUE
    /\ pc' = "idle"
    /\ FreshLocals
    /\ UNCHANGED <<search_enabled, renderVars>>

\* lines 250-252
ClearChat ==
    /\ BetweenRuns
    /\ messages' = <<>>
    /\ was_reset' = TRUE
    /\ pc' = "idle"
    /\ FreshLocals
    /\ UNCHANGED <<search_enabled, renderVars>>

\* lines 360-365: the toggle was flipped, the script reruns without a prompt
ToggleSearch ==
    /\ BetweenRuns
    /\ search_enabled' = ~search_enabled
    /\ pc' = "idle"
    /\ FreshLocals
    /\ UNCHANGED <<messages, was_reset, renderVars>>

\* lines 275-279: a prompt was submitted
ChatInput ==
    /\ BetweenRuns
    /\ Len(messages) < 2 * MaxTurns
    /\ \E p \in Prompts : prompt' = p
    /\ search_sources' = <<>>
    /\ search_outcome' = "none"
    /\ messages_for_api' = <<>>
    /\ shown_user' = <<>>
    /\ full_response' = <<>>
    /\ message_placeholder' = NoPlaceholder
    /\ raised' = <<>>
    /\ nchunks' = 0
    /\ pc' = IF search_enabled THEN "search" ELSE "build"
    /\ UNCHANGED <<messages, search_enabled, was_reset, renderVars>>

\* line 280: the blocking search call returns
Search ==
    /\ pc = "search"
    /\ \E env \in SearchEnvs :
          /\ search_sources' = perform_search(env)
          /\ search_outcome' = OutcomeOf(env)
    /\ pc' = "build"
    /\ UNCHANGED <<messages, search_enabled, prompt, messages_for_api,
                   shown_user, full_response, message_placeholder, raised,
                   nchunks, was_reset, renderVars>>

\* lines 283-314: payload, user message into history, user bubble
BuildPayload ==
    /\ pc = "build"
    /\ messages_for_api' =
          Append(history_for_api(messages),
                 [role |-> "user",
                  content |-> api_user_content(prompt, search_enabled,
                                               search_sources)])
    /\ messages' = Append(messages,
                          user_message(prompt, search_enabled, search_sources))
    /\ shown_user' = prompt
    /\ message_placeholder' = NoPlaceholder
    /\ full_response' = <<>>
    /\ pc' = "create"
    /\ UNCHANGED <<search_enabled, prompt, search_sources, search_outcome,
                   raised, nchunks, was_reset, renderVars>>

OnExceptionKeepsPartial(e) ==
    /\ raised' = <<e>>
    /\ message_placeholder' = [kind |-> "error", text |-> error_message(e)]
    /\ full_response' = full_response \o error_message(e)
    /\ pc' = "append"
    /\ UNCHANGED messages

\* lines 344-348: the except clause
OnException(e) ==
    /\ raised' = <<e>>
    /\ message_placeholder' = [kind |-> "error", text |-> error_message(e)]
    /\ full_response' = error_message(e)
    /\ pc' = "append"
    /\ UNCHANGED messages

\* lines 319-328: the completion call returns a stream, or raises
CreateStream ==
    /\ pc = "create"
    /\ \/ /\ pc' = "stream"
          /\ UNCHANGED <<messages, full_response, message_placeholder, raised>>
       \/ \E e \in ErrTexts : OnException(e)
    /\ UNCHANGED <<search_enabled, prompt, search_sources, search_outcome,
                   messages_for_api, shown_user, nchunks, was_reset, renderVars>>

StreamChunkIntoHistory ==
    /\ pc = "stream"
    /\ nchunks < MaxChunks
    /\ nchunks' = nchunks + 1
    /\ \E d \in Deltas :
          /\ full_response' = full_response \o d
          /\ message_placeholder' =
                [kind |-> "markdown", text |-> full_response' \o <<"|">>]
          /\ messages' = Append(messages, assistant_message(full_response', <<>>))
    /\ UNCHANGED <<pc, search_enabled, prompt, search_sources,
                   search_outcome, messages_for_api, shown_user, raised,
                   was_reset, renderVars>>

\* lines 332-337: one chunk of the stream, with or without content; "|" is
\* the cursor shown after the partial text
StreamChunk ==
    /\ pc = "stream"
    /\ nchunks < MaxChunks
    /\ nchunks' = nchunks + 1
    /\ \/ \E d \in Deltas :
             /\ full_response' = full_response \o d
             /\ message_placeholder' =
                   [kind |-> "markdown", text |-> full_response' \o <<"|">>]
       \/ UNCHANGED <<full_response, message_placeholder>>
    /\ UNCHANGED <<messages, pc, search_enabled, prompt, search_sources,
                   search_outcome, messages_for_api, shown_user, raised,
                   was_reset, renderVars>>

\* line 332: iterating the stream raises
StreamRaise ==
    /\ pc = "stream"
    /\ \E e \in ErrTexts : OnException(e)
    /\ UNCHANGED <<search_enabled, prompt, search_sources, search_outcome,
                   messages_for_api, shown_user, nchunks, was_reset, renderVars>>

\* lines 339-342: the stream ended
StreamEnd ==
    /\ pc = "stream"
    /\ message_placeholder' = [kind |-> "rendered", text |-> full_response]
    /\ pc' = "append"
    /\ UNCHANGED <<messages, search_enabled, prompt, search_sources,
                   search_outcome, messages_for_api, shown_user, full_response,
                   raised, nchunks, was_reset, renderVars>>

AppendAssistantUnlessError ==
    /\ pc = "append"
    /\ messages' = IF raised # <<>> THEN messages
                   ELSE Append(messages,
                               assistant_message(full_response, search_sources))
    /\ pc' = "done"
    /\ UNCHANGED <<search_enabled, prompt, search_sources, search_outcome,
                   messages_for_api, shown_user, full_response,
                   message_placeholder, raised, nchunks, was_reset, renderVars>>

\* lines 351-354
AppendAssistant ==
    /\ pc = "append"
    /\ messages' = Append(messages,
                          assistant_message(full_response, search_sources))
    /\ pc' = "done"
    /\ UNCHANGED <<search_enabled, prompt, search_sources, search_outcome,
                   messages_for_api, shown_user, full_response,
                   message_placeholder, raised, nchunks, was_reset, renderVars>>

RenderIdle ==
    /\ content = <<>>
    /\ rpc = "off"
    /\ normalized = <<>>
    /\ out122 = <<>>
    /\ parts = <<>>
    /\ ip = 0
    /\ inline_parts = <<>>
    /\ jp = 0
    /\ shown = <<>>
    /\ failed = {}

\* lines 162-169: a new session
ChatInit ==
    /\ messages = <<>>
    /\ search_enabled = FALSE
    /\ pc = "idle"
    /\ prompt = <<>>
    /\ search_sources = <<>>
    /\ search_outcome = "none"
    /\ messages_for_api = <<>>
    /\ shown_user = <<>>
    /\ full_response = <<>>
    /\ message_placeholder = NoPlaceholder
    /\ raised = <<>>
    /\ nchunks = 0
    /\ was_reset = FALSE

Init == ChatInit /\ RenderIdle

Next ==
    \/ ClearChat
    \/ ToggleSearch
    \/ ChatInput
    \/ Search
    \/ BuildPayload
    \/ CreateStream
    \/ StreamChunk
    \/ StreamRaise
    \/ StreamEnd
    \/ AppendAssistant

Spec == Init /\ [][Next]_vars

----------------------------------------------------------------------------
(* render_markdown_with_latex: text as a sequence of characters *)

MaxPieces == 3

Letters ==
    { "A", "B", "C", "D", "E", "F", "G", "H", "I", "J", "K", "L", "M",
      "N", "O", "P", "Q", "R", "S", "T", "U", "V", "W", "X", "Y", "Z",
      "a", "b", "c", "d", "e", "f", "g", "h", "i", "j", "k", "l", "m",
      "n", "o", "p", "q", "r", "s", "t", "u", "v", "w", "x", "y", "z" }

Digits == { "0", "1", "2", "3", "4", "5", "6", "7", "8", "9" }

\* \s
Whitespace == { " ", "\n", "\t", "\r", "\f" }

\* [A-Za-z0-9^_{}\\\s] of line 124
CommandTail == Letters \cup Digits \cup { "^", "_", "{", "}", "\\" } \cup Whitespace

\* [.,;:!?)] of line 124
Punctuation == { ".", ",", ";", ":", "!", "?", ")" }

\* lines 113-119
indicators ==
    { <<"\\">>,
      <<"f", "r", "a", "c">>,
      <<"c", "d", "o", "t">>,
      <<"t", "e", "x", "t">>,
      <<"s", "q", "r", "t">>,
      <<"s", "u", "m">>,
      <<"i", "n", "t">>,
      <<"a", "l", "p", "h", "a">>,
      <<"b", "e", "t", "a">>,
      <<"g", "a", "m", "m", "a">>,
      <<"d", "e", "l", "t", "a">>,
      <<"t", "h", "e", "t", "a">>,
      <<"p", "i">>,
      <<"s", "i", "g", "m", "a">>,
      <<"m", "u">>,
      <<"l", "a", "m", "b", "d", "a">>,
      <<"o", "m", "e", "g", "a">>,
      <<"s", "i", "n">>,
      <<"c", "o", "s">>,
      <<"t", "a", "n">>,
      <<"l", "o", "g">>,
      <<"e", "x", "p">>,
      <<"p", "a", "r", "t", "i", "a", "l">>,
      <<"n", "a", "b", "l", "a">>,
      <<"l", "e", "q">>,
      <<"g", "e", "q">>,
      <<"n", "e", "q">>,
      <<"a", "p", "p", "r", "o", "x">>,
      <<"e", "q", "u", "i", "v">>,
      <<"r", "i", "g", "h", "t", "a", "r", "r", "o", "w">>,
      <<"l", "e", "f", "t", "a", "r", "r", "o", "w">>,
      <<"i", "n", "f", "t", "y">>,
      <<"f", "o", "r", "a", "l", "l">>,
      <<"e", "x", "i", "s", "t", "s">>,
      <<"c", "u", "p">>,
      <<"c", "a", "p">>,
      <<"s", "e", "t", "m", "i", "n", "u", "s">>,
      <<"s", "u", "b", "s", "e", "t">>,
      <<"s", "u", "b", "s", "e", "t", "e", "q">>,
      <<"s", "u", "p", "e", "r", "s", "e", "t">>,
      <<"w", "e", "d", "g", "e">>,
      <<"v", "e", "e">>,
      <<"o", "p", "l", "u", "s">>,
      <<"o", "t", "i", "m", "e", "s">>,
      <<"p", "m">>,
      <<"c", "d", "o", "t">>,
      <<"t", "i", "m", "e", "s">>,
      <<"d", "i", "v">>,
      <<"p", "r", "o", "d">>,
      <<"l", "i", "m">>,
      <<"d", "e", "t">>,
      <<"k", "e", "r">>,
      <<"d", "i", "m">>,
      <<"R", "e">>,
      <<"I", "m">> }

MinOf(S) == CHOOSE x \in S : \A y \in S : x <= y
MaxOf(S) == CHOOSE x \in S : \A y \in S : y <= x

\* str.strip()
strip(s) ==
    LET keep == { k \in 1..Len(s) : s[k] \notin Whitespace }
    IN  IF keep = {} THEN <<>> ELSE SubSeq(s, MinOf(keep), MaxOf(keep))

HasAt(s, i, pat) ==
    /\ i >= 1
    /\ i + Len(pat) - 1 <= Len(s)
    /\ SubSeq(s, i, i + Len(pat) - 1) = pat

StartsWith(s, pat) == HasAt(s, 1, pat)
EndsWith(s, pat) == HasAt(s, Len(s) - Len(pat) + 1, pat)

\* First index >= from where pat occurs, 0 if none: a lazy [\s\S]*? before pat.
FirstAt(s, from, pat) ==
    LET at == { j \in from..Len(s) : HasAt(s, j, pat) }
    IN  IF at = {} THEN 0 ELSE MinOf(at)

\* A pattern is given by its match function: ends[i] is the index of the last
\* character of the match that starts at i, or 0 when none starts there.

RECURSIVE SplitAt(_, _, _, _)
\* re.split with the whole match captured, scanning from i with the current
\* unmatched text starting at `start`: unmatched, match, unmatched, ...
SplitAt(s, ends, i, start) ==
    IF i > Len(s) THEN << SubSeq(s, start, Len(s)) >>
    ELSE IF ends[i] > 0
         THEN << SubSeq(s, start, i - 1), SubSeq(s, i, ends[i]) >>
                 \o SplitAt(s, ends, ends[i] + 1, ends[i] + 1)
         ELSE SplitAt(s, ends, i + 1, start)

Inner(m, n) == SubSeq(m, n + 1, Len(m) - n)

\* \\\[([\s\S]*?)\\\] (line 105) and \\\(([\s\S]*?)\\\) (line 106)
tex_end(s, i, open, close) ==
    IF HasAt(s, i, open)
    THEN LET j == FirstAt(s, i + Len(open), close)
         IN  IF j = 0 THEN 0 ELSE j + Len(close) - 1
    ELSE 0

\* re.sub of lines 105 and 106
tex_sub(s, open, close, dollars) ==
    LET ps == SplitAt(s, [i \in 1..Len(s) |-> tex_end(s, i, open, close)], 1, 1)
    IN  Join([k \in 1..Len(ps) |->
                IF k % 2 = 0 THEN dollars \o strip(Inner(ps[k], 2)) \o dollars
                ELSE ps[k]])

\* (\$\$[\s\S]*?\$\$|\$[^$\n]+\$) of line 127
math_run_end(s, i) ==
    LET j == IF HasAt(s, i, <<"$", "$">>) THEN FirstAt(s, i + 2, <<"$", "$">>) ELSE 0
        stop == { k \in (i + 1)..Len(s) : s[k] \in {"$", "\n"} }
    IN  IF j > 0 THEN j + 1
        ELSE IF s[i] = "$" /\ stop # {} /\ s[MinOf(stop)] = "$" /\ MinOf(stop) >= i + 2
             THEN MinOf(stop)
             ELSE 0

\* \[([\s\S]+?)\](?!\() of line 122
square_end(s, i) ==
    LET close == { j \in (i + 2)..Len(s) :
                     s[j] = "]" /\ (j = Len(s) \/ s[j + 1] # "(") }
    IN  IF s[i] = "[" /\ close # {} THEN MinOf(close) ELSE 0

\* any(cmd in inner for cmd in indicators), line 120
looks_like_latex(inner) == \E cmd \in indicators : IsSubstr(cmd, inner)

\* lines 111-120, with the verdict kept beside the text
replace_square(m) ==
    LET inner == strip(Inner(m, 1))
    IN  IF looks_like_latex(inner)
        THEN [math |-> TRUE, text |-> <<"$", "$">> \o inner \o <<"$", "$">>]
        ELSE [math |-> FALSE, text |-> m]

\* line 122: `out` as the pieces the substitution puts together
square_sub(s) ==
    LET ps == SplitAt(s, [i \in 1..Len(s) |-> square_end(s, i)], 1, 1)
    IN  [k \in 1..Len(ps) |->
            IF k % 2 = 0 THEN replace_square(ps[k])
            ELSE [math |-> FALSE, text |-> ps[k]]]

Flat(pieces) == Join([k \in 1..Len(pieces) |-> pieces[k].text])

\* (?=(?:[.,;:!?)]|\s{2,}|$)) of line 124, at position p
CommandStop(s, p) ==
    \/ p <= Len(s) /\ s[p] \in Punctuation
    \/ p + 1 <= Len(s) /\ s[p] \in Whitespace /\ s[p + 1] \in Whitespace
    \/ p = Len(s) + 1
    \/ p = Len(s) /\ s[p] = "\n"

\* \\[A-Za-z]+[A-Za-z0-9^_{}\\\s]*?(?=...) of line 124
command_end(s, i) ==
    IF s[i] = "\\" /\ i + 1 <= Len(s) /\ s[i + 1] \in Letters
    THEN LET k == MaxOf({ x \in (i + 1)..Len(s) :
                            \A y \in (i + 1)..x : s[y] \in Letters })
             ok == { e \in k..Len(s) :
                       /\ \A y \in (k + 1)..e : s[y] \in CommandTail
                       /\ CommandStop(s, e + 1) }
         IN  IF ok = {} THEN 0 ELSE MinOf(ok)
    ELSE 0

command_ends(s) == [i \in 1..Len(s) |-> command_end(s, i)]

\* line 124
command_sub(s) ==
    LET ps == SplitAt(s, command_ends(s), 1, 1)
    IN  Join([k \in 1..Len(ps) |->
                IF k % 2 = 0 THEN <<"$">> \o strip(ps[k]) \o <<"$">> ELSE ps[k]])

\* lines 109-125
transform_outside_math(text) == command_sub(Flat(square_sub(text)))

\* the test of line 128
passes_through(seg) ==
    \/ StartsWith(seg, <<"$", "$">>) /\ EndsWith(seg, <<"$", "$">>)
    \/ StartsWith(seg, <<"$">>) /\ EndsWith(seg, <<"$">>)

\* lines 105-106
tex_delimiters(s) ==
    tex_sub(tex_sub(s, <<"\\", "[">>, <<"\\", "]">>, <<"$", "$">>),
            <<"\\", "(">>, <<"\\", ")">>, <<"$">>)

\* line 127
segments(s) == SplitAt(s, [i \in 1..Len(s) |-> math_run_end(s, i)], 1, 1)

\* lines 105-128
normalize(s) ==
    LET segs == segments(tex_delimiters(s))
    IN  Join([k \in 1..Len(segs) |->
                IF passes_through(segs[k]) THEN segs[k]
                ELSE transform_outside_math(segs[k])])

\* the values `out` takes at line 122, one for each segment transformed
outs_at_122(s) ==
    LET segs == segments(tex_delimiters(s))
        todo == SelectSeq(segs, LAMBDA g : ~passes_through(g))
    IN  [k \in 1..Len(todo) |-> square_sub(todo[k])]

\* \$\$(.*?)\$\$ with DOTALL, lines 131-132: text, expression, text, ...
block_split(s) ==
    LET ps == SplitAt(s, [i \in 1..Len(s) |->
                            tex_end(s, i, <<"$", "$">>, <<"$", "$">>)], 1, 1)
    IN  [k \in 1..Len(ps) |-> IF k % 2 = 0 THEN Inner(ps[k], 2) ELSE ps[k]]

\* (?<!\$)\$(?!\$)(.*?)(?<!\$)\$(?!\$) of line 137
inline_end(s, i) ==
    LET close == { j \in (i + 2)..Len(s) :
                     /\ s[j] = "$"
                     /\ s[j - 1] # "$"
                     /\ (j = Len(s) \/ s[j + 1] # "$")
                     /\ \A x \in (i + 1)..(j - 1) : s[x] # "\n" }
    IN  IF /\ s[i] = "$"
           /\ (i = 1 \/ s[i - 1] # "$")
           /\ (i = Len(s) \/ s[i + 1] # "$")
           /\ close # {}
        THEN MinOf(close) ELSE 0

\* line 138
inline_split(s) ==
    LET ps == SplitAt(s, [i \in 1..Len(s) |-> inline_end(s, i)], 1, 1)
    IN  [k \in 1..Len(ps) |-> IF k % 2 = 0 THEN Inner(ps[k], 1) ELSE ps[k]]

\* The pieces texts are put together from.
Chunks ==
    { <<"a">>,
      <<" ">>,
      <<",">>,
      <<"\n">>,
      <<"\\", "p", "i">>,
      <<"[", "a", "]", "(", "u", ")">>,
      <<"[", "p", "i", "]">>,
      <<"[", "a", "]">>,
      <<"$", "a", "$">>,
      <<"$", "$", "a", "$", "$">>,
      <<"\\", "(", "a", "\\", ")">>,
      <<"\\", "[", "a", "\\", "]">>,
      <<"[", "\\", "p", "i", ",", " ", "a", "]">>,
      <<"[", "p", "i", "]", "(", "u", ")">>,
      <<"$">> }

RECURSIVE TextsOf(_)
TextsOf(n) ==
    IF n = 0 THEN { <<>> }
    ELSE LET shorter == TextsOf(n - 1)
         IN  shorter \cup { t \o c : t \in shorter, c \in Chunks }

Texts == TextsOf(MaxPieces)

markdown(text) == [call |-> "markdown", text |-> text]
latex(text) == [call |-> "latex", text |-> text]

\* A call of the renderer.
RenderInit ==
    /\ content \in Texts
    /\ rpc = "start"
    /\ normalized = <<>>
    /\ out122 = <<>>
    /\ parts = <<>>
    /\ ip = 0
    /\ inline_parts = <<>>
    /\ jp = 0
    /\ shown = <<>>
    /\ failed = {}

\* lines 105-132
Normalize ==
    /\ rpc = "start"
    /\ normalized' = normalize(content)
    /\ out122' = outs_at_122(content)
    /\ parts' = block_split(normalized')
    /\ ip' = 0
    /\ rpc' = "loop"
    /\ UNCHANGED <<content, inline_parts, jp, shown, failed, chatVars>>

\* lines 135-138: an even part is split on inline math
TextPart ==
    /\ rpc = "loop"
    /\ ip < Len(parts)
    /\ ip % 2 = 0
    /\ inline_parts' = inline_split(parts[ip + 1])
    /\ jp' = 0
    /\ rpc' = "inner"
    /\ UNCHANGED <<content, normalized, out122, parts, ip, shown, failed, chatVars>>

\* lines 141-144
PlainText ==
    /\ rpc = "inner"
    /\ jp < Len(inline_parts)
    /\ jp % 2 = 0
    /\ shown' = IF strip(inline_parts[jp + 1]) # <<>>
                THEN Append(shown, markdown(inline_parts[jp + 1]))
                ELSE shown
    /\ jp' = jp + 1
    /\ UNCHANGED <<content, rpc, normalized, out122, parts, ip, inline_parts,
                   failed, chatVars>>

inline_fallback_block_delimiters(expr) == markdown(<<"$", "$">> \o expr \o <<"$", "$">>)

\* line 151
inline_fallback(expr) == markdown(<<"$">> \o expr \o <<"$">>)

\* line 158
block_fallback(expr) == markdown(<<"$", "$">> \o expr \o <<"$", "$">>)

\* lines 147-151: st.latex displays the expression, or raises
InlineMath ==
    /\ rpc = "inner"
    /\ jp < Len(inline_parts)
    /\ jp % 2 = 1
    /\ \/ /\ shown' = Append(shown, latex(inline_parts[jp + 1]))
          /\ UNCHANGED failed
       \/ /\ shown' = Append(shown, inline_fallback(inline_parts[jp + 1]))
          /\ failed' = failed \cup { <<ip, jp>> }
    /\ jp' = jp + 1
    /\ UNCHANGED <<content, rpc, normalized, out122, parts, ip, inline_parts,
                   chatVars>>

\* line 140: the inner loop is over
EndText ==
    /\ rpc = "inner"
    /\ jp = Len(inline_parts)
    /\ ip' = ip + 1
    /\ rpc' = "loop"
    /\ UNCHANGED <<content, normalized, out122, parts, inline_parts, jp, shown,
                   failed, chatVars>>

\* lines 153-158: st.latex displays the block, or raises
BlockMath ==
    /\ rpc = "loop"
    /\ ip < Len(parts)
    /\ ip % 2 = 1
    /\ \/ /\ shown' = Append(shown, latex(parts[ip + 1]))
          /\ UNCHANGED failed
       \/ /\ shown' = Append(shown, block_fallback(parts[ip + 1]))
          /\ failed' = failed \cup { <<ip, -1>> }
    /\ ip' = ip + 1
    /\ UNCHANGED <<content, rpc, normalized, out122, parts, inline_parts, jp,
                   chatVars>>

\* line 134: the loop is over
Return ==
    /\ rpc = "loop"
    /\ ip = Len(parts)
    /\ rpc' = "rdone"
    /\ UNCHANGED <<content, normalized, out122, parts, ip, inline_parts, jp,
                   shown, failed, chatVars>>

RenderNext ==
    \/ Normalize
    \/ TextPart
    \/ PlainText
    \/ InlineMath
    \/ EndText
    \/ BlockMath
    \/ Return

RenderSpecInit == ChatInit /\ RenderInit

RenderSpec == RenderSpecInit /\ [][RenderNext]_vars

----------------------------------------------------------------------------
(* Claims about the chat input handler, checked under Spec *)

HasContext(text) == \E k \in 1..Len(text) : text[k] = Header

\* The turn has built its payload and put its user message into history.
InTurn == pc \in {"create", "stream", "append", "done"}

IsErrorText(text) == \E e \in ErrTexts : text = error_message(e)

\* C1: in every turn the user message put into history (and shown) has
\* exactly the raw prompt as content, with or without search; the "Search
\* Results" block occurs in no payload element but the last and in no user
\* message of the history.
C1_CleanUserMessage ==
    /\ InTurn =>
          /\ messages[Len(messages_for_api)] = [role |-> "user", content |-> prompt]
          /\ shown_user = prompt
          /\ \A k \in 1..(Len(messages_for_api) - 1) :
                ~HasContext(messages_for_api[k].content)
    /\ \A k \in 1..Len(messages) :
          messages[k].role = "user" => ~HasContext(messages[k].content)

\* A second turn with search results, after a first turn with search results.
C1_Witness ==
    /\ pc = "done"
    /\ Len(messages) = 4
    /\ "sources" \in DOMAIN messages[2]
    /\ HasContext(Last(messages_for_api).content)

\* C2: an exception of the completion call or of the stream is caught: its
\* text becomes the error message, which replaces whatever the placeholder
\* showed and is stored as the content of the turn's assistant message; the
\* turn ends and a further prompt can be submitted.
C2_ErrorCaptured ==
    raised # <<>> =>
        /\ pc \in {"append", "done"}
        /\ full_response = error_message(raised[1])
        /\ message_placeholder = [kind |-> "error", text |-> error_message(raised[1])]
        /\ pc = "done" =>
              /\ Last(messages).role = "assistant"
              /\ Last(messages).content = error_message(raised[1])
              /\ messages[Len(messages) - 1] = [role |-> "user", content |-> prompt]
              /\ Len(messages) < 2 * MaxTurns => ENABLED ChatInput

\* A turn that failed after chunks had been consumed, following a turn that
\* had failed too.
C2_Witness ==
    /\ pc = "done"
    /\ raised # <<>>
    /\ nchunks > 0
    /\ Len(messages) = 4
    /\ IsErrorText(messages[2].content)

\* C3: with search enabled, a missing key, a raising request or a non-200
\* status gives an empty sources list; the last payload element is then the
\* raw prompt and the assistant message stored for the turn has no sources.
C3_SearchDegrades ==
    search_outcome \in {"nokey", "raise", "status"} =>
        /\ search_enabled
        /\ search_sources = <<>>
        /\ InTurn => Last(messages_for_api) = [role |-> "user", content |-> prompt]
        /\ pc = "done" => DOMAIN Last(messages) = {"role", "content"}

C3_Witness ==
    /\ pc = "done"
    /\ search_outcome = "status"
    /\ Len(messages) = 2

\* C4: every step either leaves the history alone, appends one message at
\* its end leaving the stored ones as they were, or replaces it by the empty
\* list.
C4_AppendOrReset ==
    [][ \/ messages' = messages
        \/ /\ Len(messages') = Len(messages) + 1
           /\ SubSeq(messages', 1, Len(messages)) = messages
        \/ messages' = <<>> ]_vars

\* A history grown again after a Clear Chat.
C4_Witness ==
    /\ was_reset
    /\ pc = "done"
    /\ Len(messages) = 4

\* C5 as stated: from the submission until the turn has completed no step
\* of the turn (search, payload construction, streaming) modifies the history.
C5_NoChangeDuringTurn ==
    [][ (pc \in {"search", "build", "create", "stream"}) => messages' = messages ]_vars

\* C5 amended: within a turn the history changes at two points only, both in
\* the handler itself: the clean user message is appended once the search
\* has returned, before the completion call, and the assistant message once
\* the stream has ended or failed; the search call, the completion call and
\* the streaming leave it alone.
C5_AppendsAtTwoPoints ==
    [][ /\ pc \in {"search", "create", "stream"} => messages' = messages
        /\ pc = "build" =>
              messages' = Append(messages, [role |-> "user", content |-> prompt])
        /\ pc = "append" =>
              /\ pc' = "done"
              /\ Len(messages') = Len(messages) + 1
              /\ Last(messages').role = "assistant"
              /\ Last(messages').content = full_response ]_vars

\* Streaming under way with the turn's user message already in the history.
C5_Witness ==
    /\ pc = "stream"
    /\ nchunks > 0
    /\ full_response # <<>>
    /\ Len(messages) = 3
    /\ Last(messages) = [role |-> "user", content |-> prompt]

\* C6: the payload is the {role, content} pair of each message stored
\* before the turn, in order, followed by one user element holding the raw
\* prompt, or the raw prompt and the context block when search is enabled and
\* returned a result; the context of an earlier turn is in no later payload.
C6_Payload ==
    InTurn =>
        LET n == Len(messages_for_api) - 1 IN
        /\ n >= 0
        /\ Len(messages) \in {n + 1, n + 2}
        /\ \A k \in 1..n :
              /\ messages_for_api[k] =
                    [role |-> messages[k].role, content |-> messages[k].content]
              /\ ~HasContext(messages_for_api[k].content)
        /\ DOMAIN messages_for_api[n + 1] = {"role", "content"}
        /\ messages_for_api[n + 1].role = "user"
        /\ messages_for_api[n + 1].content =
              IF search_enabled /\ search_sources # <<>>
              THEN prompt \o search_context(search_sources)
              ELSE prompt

\* A turn with search results whose payload carries an earlier turn that had
\* search results too.
C6_Witness ==
    /\ pc = "done"
    /\ Len(messages_for_api) = 3
    /\ "sources" \in DOMAIN messages[2]
    /\ search_sources # <<>>

\* C10: between turns the history has even length and alternates user,
\* assistant from a user message on.
C10_Alternating ==
    BetweenRuns =>
        /\ Len(messages) % 2 = 0
        /\ \A k \in 1..Len(messages) :
              messages[k].role = IF k % 2 = 1 THEN "user" ELSE "assistant"

\* Two turns after a Clear Chat, the first ended by a captured exception.
C10_Witness ==
    /\ pc = "done"
    /\ was_reset
    /\ Len(messages) = 4
    /\ IsErrorText(messages[2].content)
    /\ raised = <<>>

----------------------------------------------------------------------------
(* Claims about render_markdown_with_latex, checked under RenderSpec *)

\* The segments of a normalized text, left to right: kind, payload and the
\* loop indices <<i, j>> (j = -1 for a block) at which the loop meets it.
SegmentsOfPart(ps, i) ==
    IF i % 2 = 1
    THEN << [kind |-> "MathBlock", text |-> ps[i + 1], at |-> <<i, -1>>] >>
    ELSE LET q == inline_split(ps[i + 1])
         IN  SelectSeq([j \in 1..Len(q) |->
                          [kind |-> IF j % 2 = 0 THEN "MathInline" ELSE "Plain",
                           text |-> q[j], at |-> <<i, j - 1>>]],
                       LAMBDA g : g.kind # "Plain" \/ strip(g.text) # <<>>)

Segments(s) ==
    LET ps == block_split(s)
    IN  Join([i \in 1..Len(ps) |-> SegmentsOfPart(ps, i - 1)])

\* C7: whichever st.latex calls raise, the renderer returns having displayed
\* every segment, in order: a segment whose typesetting raised as literal
\* text between its own delimiters ($ for inline, $$ for block), every other
\* segment as it is displayed when nothing raises.
C7_FallbackPerSegment ==
    rpc = "rdone" =>
        LET segs == Segments(normalized) IN
        /\ Len(shown) = Len(segs)
        /\ \A n \in 1..Len(segs) :
              shown[n] =
                 IF segs[n].kind = "Plain"
                 THEN [call |-> "markdown", text |-> segs[n].text]
                 ELSE IF segs[n].at \notin failed
                 THEN [call |-> "latex", text |-> segs[n].text]
                 ELSE IF segs[n].kind = "MathInline"
                 THEN [call |-> "markdown",
                       text |-> <<"$">> \o segs[n].text \o <<"$">>]
                 ELSE [call |-> "markdown",
                       text |-> <<"$", "$">> \o segs[n].text \o <<"$", "$">>]

\* An inline segment whose typesetting raised, with a segment displayed
\* before it and one after it.
C7_Witness ==
    /\ rpc = "rdone"
    /\ Len(shown) = 3
    /\ failed = { <<0, 1>> }
    /\ shown[1] = [call |-> "markdown", text |-> <<",">>]
    /\ shown[2] = [call |-> "markdown", text |-> <<"$", "a", "$">>]

RECURSIVE MatchesFrom(_, _, _)
\* The matches (first, last index) a substitution with this pattern replaces.
MatchesFrom(s, ends, i) ==
    IF i > Len(s) THEN {}
    ELSE IF ends[i] > 0
         THEN { <<i, ends[i]>> } \cup MatchesFrom(s, ends, ends[i] + 1)
         ELSE MatchesFrom(s, ends, i + 1)

\* The spans (first, last index) of Flat(pieces) that line 122 wrapped in $$.
MathSpans(pieces) ==
    { << Len(Flat(SubSeq(pieces, 1, k - 1))) + 1,
         Len(Flat(SubSeq(pieces, 1, k))) >> :
        k \in { x \in 1..Len(pieces) : pieces[x].math } }

\* C8, for the spans step 4a wraps: the bare-command substitution of step
\* 4b replaces nothing inside a span that the bracket conversion has just
\* wrapped in $$...$$, so the span's text stays as it is and gets no further
\* $ inside it.
C8_NoReprocessing ==
    \A k \in 1..Len(out122) :
        LET flat == Flat(out122[k]) IN
        \A m \in MatchesFrom(flat, command_ends(flat), 1) :
            \A sp \in MathSpans(out122[k]) :
                m[2] < sp[1] \/ m[1] > sp[2]

Links ==
    { <<"[", "a", "]", "(", "u", ")">>,
      <<"[", "p", "i", "]", "(", "u", ")">> }

\* C9: a Markdown link of a text without any $ or backslash reaches the
\* display unchanged inside a Plain segment, and no math segment holds the
\* "](" of a link.
C9_LinkKept ==
    /\ rpc = "rdone"
    /\ \A k \in 1..Len(content) : content[k] \notin { "$", "\\" }
    => \A link \in Links :
          IsSubstr(link, content) =>
              /\ \E n \in 1..Len(shown) :
                    /\ shown[n].call = "markdown"
                    /\ IsSubstr(link, shown[n].text)
              /\ \A n \in 1..Len(shown) :
                    shown[n].call = "latex" => ~IsSubstr(<<"]", "(">>, shown[n].text)

====
